---- MODULE Spec2Model ----
(***************************************************************************)
(* Model of express-typo-handler: the simple router                        *)
(* (src/typo-tolerant-router.js) and the advanced router                   *)
(* (src/typo-tolerant-router-advanced.js, kept as src/unnamed/part_000).   *)
(*                                                                         *)
(* A string is a sequence of one-character strings, so that "/", ":" and   *)
(* letter case are visible to split, toLowerCase, the Levenshtein distance *)
(* and the path-to-regexp match.                                           *)
(*                                                                         *)
(* The application is a flat stack of route layers, one method each; the   *)
(* sub-routers getRegisteredRoutes descends into are left out.  Methods    *)
(* are written in lower case, as req.method.toLowerCase() and the catalog  *)
(* have them.  console.log under logCorrections changes no state and is    *)
(* left out.                                                               *)
(***************************************************************************)
EXTENDS Integers, Sequences, FiniteSets, TLC

(* ------------------------------------------------------------------ *)
(* Bounds of the model                                                 *)
(* ------------------------------------------------------------------ *)

\* config.tolerance ranges over 0..MaxTol
MaxTol == 2

\* a request path has at most MaxPathLen characters (the leading "/" included)
MaxPathLen == 4

\* the catalog given to findBestMatch has at most MaxRoutes routes
MaxRoutes == 2

\* a request to the middleware has a path of at most MwPathLen characters
MwPathLen == 3

\* the application behind the middleware registers at most MwRoutes routes
MwRoutes == 1

\* the middleware is mounted at most MaxPasses times on the path of a request
MaxPasses == 2

\* a client follows at most MaxHops redirects
MaxHops == 2

(* ------------------------------------------------------------------ *)
(* Strings                                                             *)
(* ------------------------------------------------------------------ *)

Slash == "/"
Colon == ":"
Letters == {"a", "A", "b"}

Min(a, b) == IF a < b THEN a ELSE b
Max(a, b) == IF a > b THEN a ELSE b
Abs(n) == IF n < 0 THEN -n ELSE n

\* String.prototype.toLowerCase, one character
LowerChar(c) == IF c = "A" THEN "a" ELSE c

\* String.prototype.toLowerCase
toLowerCase(s) == [i \in 1..Len(s) |-> LowerChar(s[i])]

\* a variant of Normalize that never lower-cases
NormalizeNever(s, config) == s

\* a variant of Normalize that lower-cases whatever config.caseSensitive says
NormalizeAlways(s, config) == [i \in 1..Len(s) |-> LowerChar(s[i])]

\* config.caseSensitive ? s : s.toLowerCase()
Normalize(s, config) == IF config.caseSensitive THEN s ELSE toLowerCase(s)

\* s.includes(c)
Includes(s, c) == \E i \in 1..Len(s) : s[i] = c

\* s.split("/"): the fields between the slashes, the empty ones included
RECURSIVE SplitFrom(_, _, _)
SplitFrom(s, i, cur) ==
  IF i > Len(s) THEN <<cur>>
  ELSE IF s[i] = Slash THEN <<cur>> \o SplitFrom(s, i + 1, <<>>)
  ELSE SplitFrom(s, i + 1, Append(cur, s[i]))

split(s) == SplitFrom(s, 1, <<>>)

\* .filter(Boolean) on an array of strings: the empty strings are dropped
RECURSIVE filterBoolean(_)
filterBoolean(xs) ==
  IF xs = <<>> THEN <<>>
  ELSE IF Head(xs) = <<>> THEN filterBoolean(Tail(xs))
  ELSE <<Head(xs)>> \o filterBoolean(Tail(xs))

\* path.split("/").filter(Boolean)
Segments(path) == filterBoolean(split(path))

\* segs.join("/")
RECURSIVE join(_)
join(segs) ==
  IF segs = <<>> THEN <<>>
  ELSE IF Len(segs) = 1 THEN segs[1]
  ELSE segs[1] \o <<Slash>> \o join(Tail(segs))

\* routeSegment.startsWith(":")
startsWithColon(seg) == Len(seg) > 0 /\ seg[1] = Colon

\* routeSegment.substring(1)
substring1(seg) == SubSeq(seg, 2, Len(seg))

(* ------------------------------------------------------------------ *)
(* Levenshtein distance (the "levenshtein" package), row by row        *)
(* ------------------------------------------------------------------ *)

\* the next row of the dynamic-programming table: prev is the row of the
\* prefix of a before character c, b the other string
RECURSIVE LevRow(_, _, _, _, _)
LevRow(prev, c, b, j, row) ==
  IF j > Len(b) THEN row
  ELSE LET cost == IF b[j] = c THEN 0 ELSE 1
           v == Min(Min(prev[j + 1] + 1, row[j] + 1), prev[j] + cost)
       IN LevRow(prev, c, b, j + 1, Append(row, v))

RECURSIVE LevRows(_, _, _, _)
LevRows(a, b, i, prev) ==
  IF i > Len(a) THEN prev[Len(b) + 1]
  ELSE LevRows(a, b, i + 1, LevRow(prev, a[i], b, 1, <<prev[1] + 1>>))

\* new Levenshtein(a, b).distance
Levenshtein(a, b) == LevRows(a, b, 1, [j \in 1..(Len(b) + 1) |-> j - 1])

(* ------------------------------------------------------------------ *)
(* The route catalog                                                   *)
(* ------------------------------------------------------------------ *)

\* let minDistance = Infinity: larger than every distance of the model
Infinity == 1000

\* findBestMatch returns null
Null == [null |-> TRUE]

\* the parameter names of a route path, in order: the keys path-to-regexp fills
RECURSIVE KeysOf(_)
KeysOf(segs) ==
  IF segs = <<>> THEN <<>>
  ELSE IF startsWithColon(Head(segs))
       THEN <<substring1(Head(segs))>> \o KeysOf(Tail(segs))
       ELSE KeysOf(Tail(segs))

\* basePath + (layer.route.path === "/" ? "" : layer.route.path), basePath ""
RoutePath(layerPath) == IF layerPath = <<Slash>> THEN <<>> ELSE layerPath

\* getRegisteredRoutes of the simple router: one entry per route layer
getRegisteredRoutesSimple(stack) ==
  [i \in 1..Len(stack) |->
     [path |-> RoutePath(stack[i].path), method |-> stack[i].method]]

\* getRegisteredRoutes of the advanced router: hasParams, and the keys and
\* regexp of the parameterized routes (the regexp is kept as the path it was
\* compiled from, see RegexpExec)
getRegisteredRoutes(stack) ==
  [i \in 1..Len(stack) |->
     LET path == RoutePath(stack[i].path)
         hasParams == Includes(path, Colon)
     IN [path |-> path,
         method |-> stack[i].method,
         hasParams |-> hasParams,
         keys |-> IF hasParams THEN KeysOf(Segments(path)) ELSE <<>>]]

\* a variant of FilterRoutes that keeps the routes of every method
FilterRoutesAnyMethod(routes, method, config) == routes

\* routes.filter(route => config.applyToAllMethods || route.method === method)
RECURSIVE FilterRoutes(_, _, _)
FilterRoutes(routes, method, config) ==
  IF routes = <<>> THEN <<>>
  ELSE IF config.applyToAllMethods \/ Head(routes).method = method
       THEN <<Head(routes)>> \o FilterRoutes(Tail(routes), method, config)
       ELSE FilterRoutes(Tail(routes), method, config)

(* ------------------------------------------------------------------ *)
(* path-to-regexp                                                      *)
(* ------------------------------------------------------------------ *)

\* The fields of a request path the compiled regexp pairs with the template
\* segments: the path starts with "/", and one trailing "/" is optional (the
\* regexp is not strict). <<>> inside the result is an empty field, which
\* no segment of a template matches.
RegexpFields(originalPath) ==
  LET fields == split(originalPath)
      rest == Tail(fields)
  IN IF Len(rest) > 1 /\ rest[Len(rest)] = <<>>
     THEN SubSeq(rest, 1, Len(rest) - 1)
     ELSE rest

\* pathToRegexp(route.path, route.keys).exec(originalPath) !== null.
\* The regexp is compiled with the default options: it ignores case, whatever
\* config.caseSensitive says; a ":name" segment matches [^\/]+?
RegexpMatches(routePath, originalPath) ==
  LET tsegs == Segments(routePath)
      body == RegexpFields(originalPath)
  IN /\ Len(originalPath) > 0
     /\ originalPath[1] = Slash
     /\ Len(body) = Len(tsegs)
     /\ \A i \in 1..Len(tsegs) :
          /\ body[i] # <<>>
          /\ \/ startsWithColon(tsegs[i])
             \/ toLowerCase(body[i]) = toLowerCase(tsegs[i])

\* match[1..]: the captured groups, one per parameter of the path, in order
RECURSIVE Captures(_, _)
Captures(tsegs, body) ==
  IF tsegs = <<>> THEN <<>>
  ELSE IF startsWithColon(Head(tsegs))
       THEN <<Head(body)>> \o Captures(Tail(tsegs), Tail(body))
       ELSE Captures(Tail(tsegs), Tail(body))

\* for (i = 1; i < match.length; i++) params[route.keys[i-1].name] = match[i]
\* (a later key of the same name overwrites an earlier one)
RECURSIVE AssignParams(_, _, _)
AssignParams(params, keys, caps) ==
  IF keys = <<>> THEN params
  ELSE AssignParams(
         [n \in (DOMAIN params) \cup {Head(keys)} |->
            IF n = Head(keys) THEN Head(caps) ELSE params[n]],
         Tail(keys), Tail(caps))

\* the empty object {}
EmptyParams == [n \in {} |-> <<>>]

(* ------------------------------------------------------------------ *)
(* findBestMatch, advanced router                                      *)
(* ------------------------------------------------------------------ *)

\* the outcome of the exact-match loop for one route that matched
ExactOutcome(route, originalPath) ==
  [path |-> route.path,
   method |-> route.method,
   distance |-> 0,
   hasParams |-> TRUE,
   matchedUrl |-> originalPath,
   params |-> AssignParams(EmptyParams, route.keys,
                Captures(Segments(route.path), RegexpFields(originalPath)))]

\* "First, try to find exact matches for parameterized routes": the first
\* route whose regexp matches is returned
RECURSIVE ExactScan(_, _)
ExactScan(originalPath, filteredRoutes) ==
  IF filteredRoutes = <<>> THEN Null
  ELSE LET route == Head(filteredRoutes)
       IN IF route.hasParams /\ RegexpMatches(route.path, originalPath)
          THEN ExactOutcome(route, originalPath)
          ELSE ExactScan(originalPath, Tail(filteredRoutes))

\* a variant of Better that lets an equal distance replace the best
BetterOrEqual(distance, minDistance) == distance <= minDistance

\* if (distance < minDistance): the test that lets a candidate replace the best
Better(distance, minDistance) == distance < minDistance

\* "Process static routes first": st is [bestMatch, minDistance]
RECURSIVE StaticScan(_, _, _, _)
StaticScan(originalPath, filteredRoutes, config, st) ==
  IF filteredRoutes = <<>> THEN st
  ELSE LET route == Head(filteredRoutes)
           distance == Levenshtein(Normalize(originalPath, config),
                                   Normalize(route.path, config))
       IN IF ~route.hasParams /\ Better(distance, st.minDistance)
          THEN StaticScan(originalPath, Tail(filteredRoutes), config,
                 [minDistance |-> distance,
                  bestMatch |-> [path |-> route.path,
                                 method |-> route.method,
                                 distance |-> distance,
                                 hasParams |-> FALSE]])
          ELSE StaticScan(originalPath, Tail(filteredRoutes), config, st)

\* a variant of SegmentLoop that stops at the end of the shorter sequence,
\* the positions only one of the two has costing nothing
SegmentLoopPairedOnly(originalSegments, routeSegments, config, i, acc) ==
  LET n == Min(Len(originalSegments), Len(routeSegments))
      Step[k \in 1..(n + 1)] ==
        IF k = 1 THEN acc
        ELSE LET prev == Step[k - 1]
                 origSegment == originalSegments[k - 1]
                 routeSegment == routeSegments[k - 1]
             IN IF ~prev.isGoodMatch THEN prev
                ELSE IF startsWithColon(routeSegment)
                THEN [prev EXCEPT !.params =
                        [m \in (DOMAIN @) \cup {substring1(routeSegment)} |->
                           IF m = substring1(routeSegment) THEN origSegment
                           ELSE @[m]]]
                ELSE LET segmentDistance ==
                           Levenshtein(Normalize(origSegment, config),
                                       Normalize(routeSegment, config))
                     IN [prev EXCEPT !.totalDistance = @ + segmentDistance,
                                     !.isGoodMatch =
                                        segmentDistance <= config.tolerance]
  IN Step[n + 1]

\* "Compare each segment": acc is [totalDistance, isGoodMatch, params]
RECURSIVE SegmentLoop(_, _, _, _, _)
SegmentLoop(originalSegments, routeSegments, config, i, acc) ==
  IF i > Max(Len(originalSegments), Len(routeSegments)) THEN acc
  ELSE IF i > Len(originalSegments) \/ i > Len(routeSegments)
  THEN \* missing segment
       SegmentLoop(originalSegments, routeSegments, config, i + 1,
         [acc EXCEPT !.totalDistance = @ + 1])
  ELSE LET origSegment == originalSegments[i]
           routeSegment == routeSegments[i]
       IN IF startsWithColon(routeSegment)
          THEN LET paramName == substring1(routeSegment)
               IN SegmentLoop(originalSegments, routeSegments, config, i + 1,
                    [acc EXCEPT !.params =
                       [n \in (DOMAIN @) \cup {paramName} |->
                          IF n = paramName THEN origSegment ELSE @[n]]])
          ELSE LET segmentDistance ==
                     Levenshtein(Normalize(origSegment, config),
                                 Normalize(routeSegment, config))
               IN IF segmentDistance > config.tolerance
                  THEN \* isGoodMatch = false; break
                       [acc EXCEPT !.totalDistance = @ + segmentDistance,
                                   !.isGoodMatch = FALSE]
                  ELSE SegmentLoop(originalSegments, routeSegments, config,
                         i + 1,
                         [acc EXCEPT !.totalDistance = @ + segmentDistance])

\* "Reconstruct the matched URL with parameters": matchedSegments
MatchedSegments(routeSegments, params) ==
  [i \in 1..Len(routeSegments) |->
     IF startsWithColon(routeSegments[i])
     THEN LET paramName == substring1(routeSegments[i])
          IN IF paramName \in DOMAIN params THEN params[paramName] ELSE <<>>
     ELSE routeSegments[i]]

\* the result of comparing one parameterized route with the request, or the
\* "continue" of the segment-count test (isGoodMatch FALSE, nothing compared)
FuzzyRoute(originalPath, route, config) ==
  LET originalSegments == Segments(originalPath)
      routeSegments == Segments(route.path)
  IN IF Abs(Len(originalSegments) - Len(routeSegments)) > config.tolerance
     THEN [totalDistance |-> 0, isGoodMatch |-> FALSE, params |-> EmptyParams]
     ELSE SegmentLoop(originalSegments, routeSegments, config, 1,
            [totalDistance |-> 0, isGoodMatch |-> TRUE, params |-> EmptyParams])

\* the outcome built for an accepted parameterized route
FuzzyOutcome(route, m) ==
  [path |-> route.path,
   method |-> route.method,
   distance |-> m.totalDistance,
   hasParams |-> TRUE,
   matchedUrl |-> <<Slash>> \o join(MatchedSegments(Segments(route.path), m.params)),
   params |-> m.params]

\* the loop over the parameterized routes: st is [bestMatch, minDistance]
RECURSIVE FuzzyScan(_, _, _, _)
FuzzyScan(originalPath, filteredRoutes, config, st) ==
  IF filteredRoutes = <<>> THEN st
  ELSE LET route == Head(filteredRoutes)
           m == FuzzyRoute(originalPath, route, config)
       IN IF route.hasParams /\ m.isGoodMatch
             /\ Better(m.totalDistance, st.minDistance)
          THEN FuzzyScan(originalPath, Tail(filteredRoutes), config,
                 [minDistance |-> m.totalDistance,
                  bestMatch |-> FuzzyOutcome(route, m)])
          ELSE FuzzyScan(originalPath, Tail(filteredRoutes), config, st)

\* a variant of FuzzyNeeded that does not read config.handleParams
FuzzyNeededWithoutOption(st, config) ==
  st.bestMatch = Null \/ st.bestMatch.distance > config.tolerance

\* a variant of FuzzyNeeded that does not look at the static result
FuzzyNeededAfterAnyStatic(st, config) == config.handleParams

\* config.handleParams && (!bestMatch || bestMatch.distance > config.tolerance)
FuzzyNeeded(st, config) ==
  config.handleParams
    /\ (st.bestMatch = Null \/ st.bestMatch.distance > config.tolerance)

\* a variant of WithinTolerance that returns the best match whatever its distance
WithinToleranceUnchecked(bestMatch, config) == bestMatch

\* return bestMatch && bestMatch.distance <= config.tolerance ? bestMatch : null
WithinTolerance(bestMatch, config) ==
  IF bestMatch # Null /\ bestMatch.distance <= config.tolerance
  THEN bestMatch ELSE Null

\* findBestMatch of the advanced router
findBestMatch(originalPath, routes, method, config) ==
  LET filteredRoutes == FilterRoutes(routes, method, config)
      exact == IF config.handleParams
               THEN ExactScan(originalPath, filteredRoutes) ELSE Null
      static == StaticScan(originalPath, filteredRoutes, config,
                  [bestMatch |-> Null, minDistance |-> Infinity])
      final == IF FuzzyNeeded(static, config)
               THEN FuzzyScan(originalPath, filteredRoutes, config, static)
               ELSE static
  IN IF exact # Null THEN exact
     ELSE WithinTolerance(final.bestMatch, config)

(* ------------------------------------------------------------------ *)
(* findBestMatch, simple router                                        *)
(* ------------------------------------------------------------------ *)

\* the loop over the routes: the paths with ":" are skipped
RECURSIVE SimpleScan(_, _, _, _)
SimpleScan(originalPath, filteredRoutes, config, st) ==
  IF filteredRoutes = <<>> THEN st
  ELSE LET route == Head(filteredRoutes)
           distance == Levenshtein(Normalize(originalPath, config),
                                   Normalize(route.path, config))
       IN IF ~Includes(route.path, Colon) /\ Better(distance, st.minDistance)
          THEN SimpleScan(originalPath, Tail(filteredRoutes), config,
                 [minDistance |-> distance,
                  bestMatch |-> [path |-> route.path,
                                 method |-> route.method,
                                 distance |-> distance]])
          ELSE SimpleScan(originalPath, Tail(filteredRoutes), config, st)

\* findBestMatch of the simple router
findBestMatchSimple(originalPath, routes, method, config) ==
  WithinTolerance(
    SimpleScan(originalPath, FilterRoutes(routes, method, config), config,
      [bestMatch |-> Null, minDistance |-> Infinity]).bestMatch,
    config)

(* ------------------------------------------------------------------ *)
(* The inputs of the model                                             *)
(* ------------------------------------------------------------------ *)

Methods == {"get", "post"}

\* the sequences of length n over S
RECURSIVE SeqsOfLen(_, _)
SeqsOfLen(S, n) ==
  IF n = 0 THEN {<<>>}
  ELSE {Append(s, x) : s \in SeqsOfLen(S, n - 1), x \in S}

\* the sequences of length at most n over S
SeqsUpTo(S, n) == UNION {SeqsOfLen(S, k) : k \in 0..n}

\* the request paths: "/" followed by letters and slashes (req.path always
\* starts with "/"; Express leaves a doubled or trailing "/" in place)
RequestPaths(maxLen) ==
  {<<Slash>> \o t : t \in SeqsUpTo(Letters \cup {Slash}, maxLen - 1)}

\* the query strings of the requests: none, or "?"
Queries == {<<>>, <<"?">>}

\* the paths the application registers: "/", static paths, and paths with
\* ":name" segments
LayerPaths ==
  { <<"/">>,
    <<"/", "a">>,
    <<"/", ":", "p">>,
    <<"/", "a", "/", ":", "p">>,
    <<"/", "A", "/", ":", "q">>,
    <<"/", "A", "b", "/", ":", "q">> }

\* app._router.stack: at most n route layers, in registration order
Stacks(n) == SeqsUpTo([path : LayerPaths, method : Methods], n)

\* the options of the advanced router
AdvancedConfigs ==
  [tolerance : 0..MaxTol, caseSensitive : BOOLEAN, redirectToCorrect : BOOLEAN,
   applyToAllMethods : BOOLEAN, handleParams : BOOLEAN]

\* the options of the simple router: it never reads handleParams
SimpleConfigs == {c \in AdvancedConfigs : ~c.handleParams}

(* ------------------------------------------------------------------ *)
(* State                                                               *)
(* ------------------------------------------------------------------ *)

VARIABLES
  router,     \* "simple" or "advanced": which middleware the application uses
  config,     \* the options the middleware was created with
  stack,      \* app._router.stack: the registered route layers
  req,        \* the request: method, url, typoTolerantProcessed, params
  res,        \* the response: status 0 while nothing was sent
  bestMatch,  \* the last result of findBestMatch
  pc,         \* where the request is: "idle" (none yet), "middleware", "next"
              \* (passed on), "redirected" (response sent); "resolve" and
              \* "resolved" around a direct call of findBestMatch
  passes,     \* the times the request went through the middleware
  calls,      \* the times findBestMatch ran for the request
  hops        \* the redirects the client followed

vars == <<router, config, stack, req, res, bestMatch, pc, passes, calls, hops>>

\* s.indexOf("?"), 0 when there is none (positions start at 1)
RECURSIVE IndexOfQuery(_, _)
IndexOfQuery(s, i) ==
  IF i > Len(s) THEN 0
  ELSE IF s[i] = "?" THEN i ELSE IndexOfQuery(s, i + 1)

\* req.path: the url up to the query string
ReqPath(url) ==
  LET q == IndexOfQuery(url, 1)
  IN IF q = 0 THEN url ELSE SubSeq(url, 1, q - 1)

\* req.url.includes("?") ? req.url.substring(req.url.indexOf("?")) : ""
QueryOf(url) ==
  LET q == IndexOfQuery(url, 1)
  IN IF q = 0 THEN <<>> ELSE SubSeq(url, q, Len(url))

NoResponse == [status |-> 0, location |-> <<>>]

NewRequest(method, url) ==
  [method |-> method, url |-> url, typoTolerantProcessed |-> FALSE,
   params |-> EmptyParams]

\* a variant of MarkProcessed that leaves the flag alone
MarkProcessedForgotten(r) == r

\* req.typoTolerantProcessed = true
MarkProcessed(r) == [r EXCEPT !.typoTolerantProcessed = TRUE]

\* Object.assign(req.params, bestMatch.params)
ObjectAssign(target, source) ==
  [n \in (DOMAIN target) \cup (DOMAIN source) |->
     IF n \in DOMAIN source THEN source[n] ELSE target[n]]

(* ------------------------------------------------------------------ *)
(* The middleware                                                      *)
(* ------------------------------------------------------------------ *)

\* typoTolerantMiddleware of the simple router
SimpleMiddleware ==
  /\ pc = "middleware"
  /\ router = "simple"
  /\ passes' = passes + 1
  /\ UNCHANGED <<router, config, stack, hops>>
  /\ IF req.typoTolerantProcessed
     THEN /\ pc' = "next"
          /\ UNCHANGED <<req, res, bestMatch, calls>>
     ELSE LET originalPath == ReqPath(req.url)
              method == req.method
          IN IF method # "get" /\ ~config.applyToAllMethods
             THEN /\ pc' = "next"
                  /\ UNCHANGED <<req, res, bestMatch, calls>>
             ELSE LET routes == getRegisteredRoutesSimple(stack)
                      found == findBestMatchSimple(originalPath, routes,
                                                   method, config)
                  IN /\ bestMatch' = found
                     /\ calls' = calls + 1
                     /\ IF found # Null
                        THEN IF config.redirectToCorrect
                             THEN /\ res' = [status |-> 301,
                                             location |-> found.path \o QueryOf(req.url)]
                                  /\ pc' = "redirected"
                                  /\ UNCHANGED req
                             ELSE /\ req' = [MarkProcessed(req) EXCEPT
                                       !.url = found.path \o QueryOf(req.url)]
                                  /\ pc' = "next"
                                  /\ UNCHANGED res
                        ELSE /\ pc' = "next"
                             /\ UNCHANGED <<req, res>>

\* a variant of ShouldRedirect that does not look at the outcome's flag
ShouldRedirectWhateverParams(cfg, found) == cfg.redirectToCorrect

\* config.redirectToCorrect && !bestMatch.hasParams
ShouldRedirect(cfg, found) == cfg.redirectToCorrect /\ ~found.hasParams

\* typoTolerantMiddleware of the advanced router
AdvancedMiddleware ==
  /\ pc = "middleware"
  /\ router = "advanced"
  /\ passes' = passes + 1
  /\ UNCHANGED <<router, config, stack, hops>>
  /\ IF req.typoTolerantProcessed
     THEN /\ pc' = "next"
          /\ UNCHANGED <<req, res, bestMatch, calls>>
     ELSE LET originalPath == ReqPath(req.url)
              method == req.method
          IN IF method # "get" /\ ~config.applyToAllMethods
             THEN /\ pc' = "next"
                  /\ UNCHANGED <<req, res, bestMatch, calls>>
             ELSE LET routes == getRegisteredRoutes(stack)
                      found == findBestMatch(originalPath, routes, method, config)
                  IN /\ bestMatch' = found
                     /\ calls' = calls + 1
                     /\ IF found # Null
                        THEN IF ShouldRedirect(config, found)
                             THEN /\ res' = [status |-> 301,
                                             location |-> found.path \o QueryOf(req.url)]
                                  /\ pc' = "redirected"
                                  /\ UNCHANGED req
                             ELSE /\ req' = [MarkProcessed(req) EXCEPT
                                       !.params = IF found.hasParams
                                                  THEN ObjectAssign(@, found.params)
                                                  ELSE @,
                                       !.url = (IF found.hasParams
                                                THEN found.matchedUrl
                                                ELSE found.path)
                                               \o QueryOf(req.url)]
                                  /\ pc' = "next"
                                  /\ UNCHANGED res
                        ELSE /\ pc' = "next"
                             /\ UNCHANGED <<req, res>>

\* next(): the application mounted the middleware once more further down the
\* stack, and the request reaches it
NextMount ==
  /\ pc = "next"
  /\ passes < MaxPasses
  /\ pc' = "middleware"
  /\ UNCHANGED <<router, config, stack, req, res, bestMatch, passes, calls, hops>>

\* the client follows the 301: a new request for the Location, same method
FollowRedirect ==
  /\ pc = "redirected"
  /\ hops < MaxHops
  /\ hops' = hops + 1
  /\ req' = NewRequest(req.method,
              IF ReqPath(res.location) = <<>>
              THEN req.url   \* an empty reference resolves to the same URL
              ELSE res.location)
  /\ res' = NoResponse
  /\ bestMatch' = Null
  /\ pc' = "middleware"
  /\ passes' = 0
  /\ calls' = 0
  /\ UNCHANGED <<router, config, stack>>

\* a request arrives at the application
Receive ==
  /\ pc = "idle"
  /\ \E m \in Methods, p \in RequestPaths(MwPathLen), q \in Queries :
       req' = NewRequest(m, p \o q)
  /\ pc' = "middleware"
  /\ UNCHANGED <<router, config, stack, res, bestMatch, passes, calls, hops>>

Init ==
  /\ router \in {"simple", "advanced"}
  /\ config \in (IF router = "simple" THEN SimpleConfigs ELSE AdvancedConfigs)
  /\ stack \in Stacks(MwRoutes)
  /\ req = NewRequest("get", <<Slash>>)
  /\ res = NoResponse
  /\ bestMatch = Null
  /\ pc = "idle"
  /\ passes = 0
  /\ calls = 0
  /\ hops = 0

Next ==
  \/ Receive
  \/ SimpleMiddleware
  \/ AdvancedMiddleware
  \/ NextMount
  \/ FollowRedirect

Spec == Init /\ [][Next]_vars

(* ------------------------------------------------------------------ *)
(* findBestMatch called directly, on every input of the bounds         *)
(* ------------------------------------------------------------------ *)

\* findBestMatch of the simple router applied to a path and a method
ResolveSimple ==
  /\ pc = "resolve"
  /\ router = "simple"
  /\ \E m \in Methods, p \in RequestPaths(MaxPathLen) :
       /\ req' = NewRequest(m, p)
       /\ bestMatch' = findBestMatchSimple(p, getRegisteredRoutesSimple(stack),
                                           m, config)
  /\ calls' = calls + 1
  /\ pc' = "resolved"
  /\ UNCHANGED <<router, config, stack, res, passes, hops>>

\* findBestMatch of the advanced router applied to a path and a method
ResolveAdvanced ==
  /\ pc = "resolve"
  /\ router = "advanced"
  /\ \E m \in Methods, p \in RequestPaths(MaxPathLen) :
       /\ req' = NewRequest(m, p)
       /\ bestMatch' = findBestMatch(p, getRegisteredRoutes(stack), m, config)
  /\ calls' = calls + 1
  /\ pc' = "resolved"
  /\ UNCHANGED <<router, config, stack, res, passes, hops>>

InitMatch ==
  /\ router \in {"simple", "advanced"}
  /\ config \in {c \in (IF router = "simple" THEN SimpleConfigs
                        ELSE AdvancedConfigs) : ~c.redirectToCorrect}
  /\ stack \in Stacks(MaxRoutes)
  /\ req = NewRequest("get", <<Slash>>)
  /\ res = NoResponse
  /\ bestMatch = Null
  /\ pc = "resolve"
  /\ passes = 0
  /\ calls = 0
  /\ hops = 0

NextMatch ==
  \/ ResolveSimple
  \/ ResolveAdvanced

SpecMatch == InitMatch /\ [][NextMatch]_vars

(* ------------------------------------------------------------------ *)
(* The middleware and the direct calls side by side                    *)
(* ------------------------------------------------------------------ *)

InitAll == Init \/ InitMatch

NextAll == Next \/ NextMatch

SpecAll == InitAll /\ [][NextAll]_vars

(* ------------------------------------------------------------------ *)
(* Vocabulary of the properties                                        *)
(* ------------------------------------------------------------------ *)

\* findBestMatch has returned
Resolved == pc = "resolved"

\* the path findBestMatch was called with
OriginalPath == ReqPath(req.url)

\* the catalog findBestMatch was called with
Catalog == getRegisteredRoutes(stack)

\* the positions of the catalog that pass the method filter
Candidates ==
  {i \in 1..Len(stack) : config.applyToAllMethods \/ stack[i].method = req.method}

\* case normalization as the configuration asks for it
Fold(s) == IF config.caseSensitive THEN s ELSE toLowerCase(s)

\* the template of a route has a ":name" segment
IsParameterized(path) == \E i \in 1..Len(path) : path[i] = Colon

\* the positions of the static candidates, and of the parameterized ones
StaticCandidates == {i \in Candidates : ~IsParameterized(Catalog[i].path)}
ParamCandidates == {i \in Candidates : IsParameterized(Catalog[i].path)}

\* the least element of a non-empty set of positions
First(S) == CHOOSE i \in S : \A j \in S : i <= j

\* the outcome refers to a parameterized template
HasParams(o) == o # Null /\ "hasParams" \in DOMAIN o /\ o.hasParams

\* parameter handling is on: the advanced router with handleParams
ParamsHandled == router = "advanced" /\ config.handleParams

\* the candidates the exact-match loop accepts
ExactCandidates ==
  {i \in ParamCandidates : RegexpMatches(Catalog[i].path, OriginalPath)}

(* ------------------------------------------------------------------ *)
(* C1                                                                  *)
(* ------------------------------------------------------------------ *)

\* C1: every outcome findBestMatch returns, of the simple and of the advanced
\* router, has a distance of at most config.tolerance, whether it comes from
\* the exact-match loop, the static scan or the fuzzy parameterized scan.
TheoremC1 ==
  Resolved /\ bestMatch # Null => bestMatch.distance <= config.tolerance

\* a fuzzy parameterized outcome whose distance is exactly the tolerance
WitnessC1 ==
  /\ Resolved
  /\ HasParams(bestMatch)
  /\ config.tolerance > 0
  /\ bestMatch.distance = config.tolerance

(* ------------------------------------------------------------------ *)
(* C2                                                                  *)
(* ------------------------------------------------------------------ *)

\* C2: every ":name" segment of the template of an outcome with hasParams
\* true has an entry in the params of the outcome, also when the request has
\* fewer or more segments than the template.
CounterexampleC2 ==
  Resolved /\ HasParams(bestMatch) =>
    \A k \in 1..Len(Segments(bestMatch.path)) :
      LET seg == Segments(bestMatch.path)[k]
      IN startsWithColon(seg) => substring1(seg) \in DOMAIN bestMatch.params

(* ------------------------------------------------------------------ *)
(* C3                                                                  *)
(* ------------------------------------------------------------------ *)

\* the static candidates the request path equals after case normalization
EqualStatic ==
  {i \in StaticCandidates : Fold(Catalog[i].path) = Fold(OriginalPath)}

StructuralExact(i) ==
  LET t == Segments(Catalog[i].path)
      o == Segments(OriginalPath)
  IN /\ Len(t) = Len(o)
     /\ \A k \in 1..Len(t) : startsWithColon(t[k]) \/ Fold(t[k]) = Fold(o[k])

StructuralCandidates == {i \in ParamCandidates : StructuralExact(i)}

\* C4: with handleParams on, when a parameterized candidate matches the
\* request exactly in structure, the outcome is the first such template in
\* catalog order, with distance 0, hasParams true and every parameter bound
\* to the request segment at its position, whatever static routes there are.
CounterexampleC4 ==
  Resolved /\ ParamsHandled /\ StructuralCandidates # {} =>
    LET f == First(StructuralCandidates)
        t == Segments(Catalog[f].path)
        o == Segments(OriginalPath)
    IN /\ HasParams(bestMatch)
       /\ bestMatch.distance = 0
       /\ bestMatch.path = Catalog[f].path
       /\ bestMatch.method = Catalog[f].method
       /\ \A k \in 1..Len(t) :
            startsWithColon(t[k]) =>
              /\ substring1(t[k]) \in DOMAIN bestMatch.params
              /\ bestMatch.params[substring1(t[k])] = o[k]

(* ------------------------------------------------------------------ *)
(* C5                                                                  *)
(* ------------------------------------------------------------------ *)

\* C5: with parameter handling off (handleParams false, or the simple
\* router) no outcome has hasParams true or a path with ":".
TheoremC5 ==
  Resolved /\ ~ParamsHandled /\ bestMatch # Null =>
    ~HasParams(bestMatch) /\ ~IsParameterized(bestMatch.path)

\* parameter handling is off, the regexp of a parameterized candidate matches
\* the request, and a static route is returned
WitnessC5 ==
  /\ Resolved
  /\ router = "advanced"
  /\ ~config.handleParams
  /\ ExactCandidates # {}
  /\ bestMatch # Null

(* ------------------------------------------------------------------ *)
(* C6                                                                  *)
(* ------------------------------------------------------------------ *)

\* the distance of the static scan for candidate i
StaticDistance(i) == Levenshtein(Fold(OriginalPath), Fold(Catalog[i].path))

\* the least value of f over the non-empty set S
Least(f(_), S) == CHOOSE d \in {f(i) : i \in S} : \A j \in S : d <= f(j)

\* the outcome was produced by the fuzzy parameterized scan
FuzzyOutcomeReturned ==
  Resolved /\ HasParams(bestMatch) /\ ExactCandidates = {}

\* the parameterized candidates the fuzzy scan accepts, and their distances
FuzzyAccepted ==
  {i \in ParamCandidates : FuzzyRoute(OriginalPath, Catalog[i], config).isGoodMatch}

FuzzyDistance(i) == FuzzyRoute(OriginalPath, Catalog[i], config).totalDistance

\* C6: a static outcome is the first static candidate, in catalog order, at
\* the least distance of all static candidates; a fuzzy parameterized outcome
\* is the first accepted template at the least accumulated distance.
TheoremC6 ==
  Resolved /\ bestMatch # Null =>
    IF ~HasParams(bestMatch)
    THEN LET m == Least(StaticDistance, StaticCandidates)
             f == First({i \in StaticCandidates : StaticDistance(i) = m})
         IN /\ bestMatch.distance = m
            /\ bestMatch.path = Catalog[f].path
            /\ bestMatch.method = Catalog[f].method
    ELSE FuzzyOutcomeReturned =>
         LET m == Least(FuzzyDistance, FuzzyAccepted)
             f == First({i \in FuzzyAccepted : FuzzyDistance(i) = m})
         IN /\ bestMatch.distance = m
            /\ bestMatch.path = Catalog[f].path
            /\ bestMatch.method = Catalog[f].method

\* two different accepted templates tie at the distance of a fuzzy outcome
WitnessC6 ==
  /\ FuzzyOutcomeReturned
  /\ \E i, j \in FuzzyAccepted :
       /\ i < j
       /\ Catalog[i].path # Catalog[j].path
       /\ FuzzyDistance(i) = bestMatch.distance
       /\ FuzzyDistance(j) = bestMatch.distance

(* ------------------------------------------------------------------ *)
(* C7                                                                  *)
(* ------------------------------------------------------------------ *)

\* C7: when the exact-match loop finds nothing and a static candidate is
\* within tolerance, the outcome is static; a fuzzy parameterized outcome is
\* returned only with a distance below that of every static candidate, and
\* only when no static candidate is within tolerance.
TheoremC7 ==
  Resolved /\ router = "advanced" =>
    /\ ( /\ ~(ParamsHandled /\ ExactCandidates # {})
         /\ \E i \in StaticCandidates : StaticDistance(i) <= config.tolerance )
       => (bestMatch # Null /\ ~HasParams(bestMatch))
    /\ FuzzyOutcomeReturned =>
         \A i \in StaticCandidates :
           /\ StaticDistance(i) > config.tolerance
           /\ bestMatch.distance < StaticDistance(i)

\* a static route is returned although a parameterized candidate would have
\* been accepted by the fuzzy scan with a lower distance
WitnessC7 ==
  /\ Resolved
  /\ ParamsHandled
  /\ bestMatch # Null
  /\ ~HasParams(bestMatch)
  /\ \E i \in FuzzyAccepted : FuzzyDistance(i) < bestMatch.distance

(* ------------------------------------------------------------------ *)
(* C8                                                                  *)
(* ------------------------------------------------------------------ *)

\* the literal segments of candidate i that are further than the tolerance
\* from the request segment at their position
FarSegments(path) ==
  LET t == Segments(path)
      o == Segments(OriginalPath)
  IN {k \in 1..Min(Len(t), Len(o)) :
        /\ ~startsWithColon(t[k])
        /\ Levenshtein(Fold(o[k]), Fold(t[k])) > config.tolerance}

\* the difference of the segment counts of the request and of a template
CountDifference(path) ==
  Abs(Len(Segments(OriginalPath)) - Len(Segments(path)))

\* C8: the fuzzy parameterized scan never returns a template with a literal
\* segment further than the tolerance from the request segment at the same
\* position, or with a segment count that differs by more than the tolerance.
TheoremC8 ==
  FuzzyOutcomeReturned =>
    /\ FarSegments(bestMatch.path) = {}
    /\ CountDifference(bestMatch.path) <= config.tolerance

\* the fuzzy scan ran over a template of an acceptable segment count whose
\* only difference is one literal segment further than the tolerance, and
\* the template was not returned
WitnessC8 ==
  /\ Resolved
  /\ ParamsHandled
  /\ ExactCandidates = {}
  /\ \A i \in StaticCandidates : StaticDistance(i) > config.tolerance
  /\ \E i \in ParamCandidates :
       /\ CountDifference(Catalog[i].path) = 0
       /\ Cardinality(FarSegments(Catalog[i].path)) = 1
       /\ (bestMatch = Null \/ bestMatch.path # Catalog[i].path)

(* ------------------------------------------------------------------ *)
(* C9                                                                  *)
(* ------------------------------------------------------------------ *)

\* the path of the request is exactly a static route the application
\* registered for the method of the request
ExactlyRegistered ==
  \E i \in 1..Len(stack) :
    /\ ~IsParameterized(stack[i].path)
    /\ stack[i].path = ReqPath(req.url)
    /\ stack[i].method = req.method

\* C9: the middleware corrects a request only when its path does not exactly
\* match a registered route: a request whose path is exactly a registered
\* static route of its method goes on to normal routing with no redirect,
\* its URL not rewritten and not marked processed.
CounterexampleC9 ==
  [][(pc = "middleware" /\ ExactlyRegistered) => (res' = res /\ req' = req)]_vars

(* ------------------------------------------------------------------ *)
(* C10                                                                 *)
(* ------------------------------------------------------------------ *)

\* C10: a request is corrected at most once: the middleware changes a
\* request only while the flag is unset, and sets the flag when it does;
\* once req.typoTolerantProcessed is set, no step computes a match, rewrites
\* the URL, changes the params or sends a redirect.
TheoremC10 ==
  [][ /\ req.typoTolerantProcessed =>
           /\ req' = req
           /\ res' = res
           /\ bestMatch' = bestMatch
           /\ calls' = calls
      /\ (pc = "middleware" /\ req' # req) =>
           /\ ~req.typoTolerantProcessed
           /\ req'.typoTolerantProcessed ]_vars

\* a corrected request went through the middleware a second time, and its
\* rewritten path is not exactly a registered route
WitnessC10 ==
  /\ req.typoTolerantProcessed
  /\ passes = 2
  /\ pc = "next"
  /\ calls = 1
  /\ ~ExactlyRegistered

(* C11: the advanced middleware never answers an outcome that carries
   parameters with a redirect.  On every pass that computes an outcome with
   hasParams true, whatever redirectToCorrect says, no response is written,
   the request's url becomes the outcome's matchedUrl followed by the
   original query string, every binding of the outcome is in req.params, the
   request is marked and handed on; and every pass of the advanced
   middleware that writes a 301 computed an outcome with hasParams false. *)
AdvancedPass ==
  pc = "middleware" /\ router = "advanced" /\ calls' = calls + 1

TheoremC11 ==
  [][AdvancedPass =>
       /\ HasParams(bestMatch') =>
            /\ res' = res
            /\ pc' = "next"
            /\ req'.url = bestMatch'.matchedUrl \o QueryOf(req.url)
            /\ \A n \in DOMAIN bestMatch'.params :
                 /\ n \in DOMAIN req'.params
                 /\ req'.params[n] = bestMatch'.params[n]
            /\ req'.typoTolerantProcessed
       /\ (res'.status = 301 \/ pc' = "redirected") =>
            /\ bestMatch' # Null
            /\ ~bestMatch'.hasParams]_vars

\* redirect mode is on, the outcome carries a binding, and the request was
\* rewritten and handed on instead of redirected
WitnessC11 ==
  /\ router = "advanced"
  /\ config.redirectToCorrect
  /\ pc = "next"
  /\ HasParams(bestMatch)
  /\ bestMatch.params # EmptyParams
  /\ req.url = bestMatch.matchedUrl
  /\ req.params = bestMatch.params
  /\ res = NoResponse

(* ------------------------------------------------------------------ *)
(* C12                                                                 *)
(* ------------------------------------------------------------------ *)

\* the outcome of a direct call is at least as close as the static
\* candidate at position i, when that one is within tolerance
AsCloseAsStatic(i) ==
  StaticDistance(i) <= config.tolerance =>
    bestMatch # Null /\ bestMatch.distance <= StaticDistance(i)

\* the outcome of a direct call is an exact match when the regexp of the
\* parameterized candidate at position i matches the request
AsCloseAsTemplate(i) ==
  (ParamsHandled /\ RegexpMatches(Catalog[i].path, OriginalPath)) =>
    bestMatch # Null /\ bestMatch.distance = 0

\* what the method filter leaves is what findBestMatch chooses from
MethodFilterC12 ==
  /\ (bestMatch # Null /\ ~config.applyToAllMethods) =>
       bestMatch.method = req.method
  /\ Resolved =>
       /\ \A i \in StaticCandidates : AsCloseAsStatic(i)
       /\ \A i \in ParamCandidates : AsCloseAsTemplate(i)
       /\ config.applyToAllMethods => Candidates = 1..Len(stack)

\* a pass of the middleware over a request that is not a GET, without
\* applyToAllMethods, hands the request on as it came
PassThroughC12 ==
  (pc = "middleware" /\ req.method # "get" /\ ~config.applyToAllMethods) =>
    /\ pc' = "next"
    /\ UNCHANGED <<req, res, bestMatch, calls>>

(* C12: without applyToAllMethods only the templates registered for the
   request's method are candidates: every outcome of findBestMatch, called
   directly or by the middleware, has the request's method, and the
   middleware hands every request that is not a GET on with its url, its
   params and its flag untouched, no response written and findBestMatch not
   called.  With applyToAllMethods the templates of every method are
   candidates: a static route of any method within tolerance, or a template
   of any method whose regexp matches, yields an outcome at least as close. *)
TheoremC12 == []MethodFilterC12 /\ [][PassThroughC12]_vars

\* a POST request, a route of another method that equals the request path,
\* and the outcome is a farther route registered for POST
WitnessC12 ==
  /\ Resolved
  /\ ~config.applyToAllMethods
  /\ req.method = "post"
  /\ \E i \in (1..Len(stack)) \ Candidates :
       ~IsParameterized(Catalog[i].path) /\ StaticDistance(i) = 0
  /\ bestMatch # Null
  /\ bestMatch.method = "post"
  /\ bestMatch.distance > 0

(* ------------------------------------------------------------------ *)
(* C13                                                                 *)
(* ------------------------------------------------------------------ *)

\* the edit distances of the literal segments of template t to the segments
\* of request o at the same positions, from position k on, summed
RECURSIVE LiteralSum(_, _, _)
LiteralSum(o, t, k) ==
  IF k > Len(o) \/ k > Len(t) THEN 0
  ELSE (IF t[k][1] = Colon THEN 0
        ELSE Levenshtein(Fold(o[k]), Fold(t[k])))
       + LiteralSum(o, t, k + 1)

\* the positions of template t paired with a segment of request o that hold
\* a parameter
PairedParams(o, t) ==
  {k \in 1..Min(Len(o), Len(t)) : t[k][1] = Colon}

(* C13: the distance of an outcome of the fuzzy parameterized scan is the
   sum of the edit distances of the template's literal segments to the
   request segments at the same positions (case folded as the configuration
   asks), nothing for a parameter segment, and 1 for every position that
   only the request or only the template has; and every parameter paired
   with a request segment is bound to that segment as the request wrote it. *)
TheoremC13 ==
  FuzzyOutcomeReturned =>
    LET o == Segments(OriginalPath)
        t == Segments(bestMatch.path)
    IN /\ bestMatch.distance = LiteralSum(o, t, 1) + CountDifference(bestMatch.path)
       /\ \A k \in PairedParams(o, t) :
            /\ Tail(t[k]) \in DOMAIN bestMatch.params
            /\ bestMatch.params[Tail(t[k])] = o[k]

\* as '/usrs/123' against '/users/:userId': one literal segment at distance
\* 1, a parameter bound to the second request segment, distance 1
WitnessC13 ==
  /\ FuzzyOutcomeReturned
  /\ Len(Segments(OriginalPath)) = 2
  /\ Len(Segments(bestMatch.path)) = 2
  /\ PairedParams(Segments(OriginalPath), Segments(bestMatch.path)) = {2}
  /\ LiteralSum(Segments(OriginalPath), Segments(bestMatch.path), 1) = 1
  /\ bestMatch.distance = 1
  /\ bestMatch.params # EmptyParams

(* ------------------------------------------------------------------ *)
(* C14                                                                 *)
(* ------------------------------------------------------------------ *)

\* the exact-match loop returned: the outcome of the call is the template of
\* the first candidate whose regexp matches the request path
ShortCircuitFired ==
  /\ Resolved
  /\ ParamsHandled
  /\ ExactCandidates # {}
  /\ HasParams(bestMatch)
  /\ bestMatch.distance = 0
  /\ bestMatch.path = Catalog[First(ExactCandidates)].path

(* C14: the exact-match loop returns a parameterized template at distance 0
   only when the request has as many segments as the template and every
   literal segment of the template is identical to the request segment at
   its position after case normalization as config.caseSensitive asks; with
   caseSensitive on, a request whose literal segments differ from the
   template's in letter case only is not an exact match. *)
CounterexampleC14 ==
  ShortCircuitFired => StructuralExact(First(ExactCandidates))

(* ------------------------------------------------------------------ *)
(* C15                                                                 *)
(* ------------------------------------------------------------------ *)

\* path u has one segment per segment of template t: the literal segments
\* are the template's own, the parameter segments the values bound in params
RebuiltFrom(u, t, params) ==
  /\ Len(u) = Len(t)
  /\ \A k \in 1..Len(t) :
       IF t[k][1] = Colon
       THEN /\ Tail(t[k]) \in DOMAIN params
            /\ u[k] = params[Tail(t[k])]
       ELSE u[k] = t[k]

(* C15: the matchedUrl of every outcome of the fuzzy parameterized scan has
   exactly one segment per segment of the matched template, a literal
   segment being the template's own and a parameter segment the request
   value bound to that parameter, so that the regexp of the matched template
   matches the rewritten path. *)
CounterexampleC15 ==
  FuzzyOutcomeReturned =>
    /\ RebuiltFrom(Segments(bestMatch.matchedUrl), Segments(bestMatch.path),
                   bestMatch.params)
    /\ RegexpMatches(bestMatch.path, bestMatch.matchedUrl)

(* ------------------------------------------------------------------ *)
(* C16                                                                 *)
(* ------------------------------------------------------------------ *)

\* the client followed a 301 and the request it sent, which reaches the
\* middleware for the first time, is for a route path of the catalog: the
\* target the Location named
RequestsRedirectTarget ==
  /\ hops >= 1
  /\ passes = 0
  /\ \E i \in 1..Len(stack) : RoutePath(stack[i].path) = ReqPath(req.url)

(* C16: in redirect mode the chain of redirects ends: the request a client
   sends for the target of a 301 is handed to normal routing and not
   answered with another 301.  (The middleware answers a request from the
   catalog, the configuration and the request alone, so a target that is
   redirected to itself is redirected on every later hop as well.) *)
CounterexampleC16 ==
  [][(pc = "middleware" /\ RequestsRedirectTarget) => pc' # "redirected"]_vars

====
